---- MODULE Spec2Model ----
(***************************************************************************)
(* CDNService: uploads of audio files to object storage, signed and public *)
(* streaming URLs, CDN cache invalidation and streaming metrics.           *)
(*                                                                         *)
(* Strings are sequences of one-character strings, so that concatenation   *)
(* (template literals) is \o and a prefix can be inspected.  An absent     *)
(* property or return value is Undefined, null is Null.                    *)
(***************************************************************************)
EXTENDS Integers, Sequences, FiniteSets, TLC

VARIABLES config, svc, now, ticks, calls, last, invalidations

vars == <<config, svc, now, ticks, calls, last, invalidations>>

\* ------------------------------------------------------------------ bounds
MaxCalls == 2
MaxTicks == 1
MaxPaths == 2

\* --------------------------------------------------------------- constants
Undefined == <<"undefined">>
Null == [null |-> TRUE]
NoError == <<"Error", "none">>
NoKey == <<>>
NoRequest == [none |-> TRUE]

Digits == <<"0", "1", "2", "3", "4", "5", "6", "7", "8", "9">>

Low == <<"l", "o", "w">>
Medium == <<"m", "e", "d", "i", "u", "m">>
High == <<"h", "i", "g", "h">>
Lossless == <<"l", "o", "s", "s", "l", "e", "s", "s">>
Mp3 == <<"m", "p", "3">>
Aac == <<"a", "a", "c">>
Flac == <<"f", "l", "a", "c">>

Qualities == {Low, Medium, High, Lossless}
Formats == {Mp3, Aac, Flac}

AudioMpeg == <<"a", "u", "d", "i", "o", "/", "m", "p", "e", "g">>
UploadCacheControl ==
    <<"m", "a", "x", "-", "a", "g", "e", "=", "3", "1", "5", "3", "6", "0", "0", "0">>
SignedCacheControl == <<"m", "a", "x", "-", "a", "g", "e", "=", "3", "6", "0", "0">>
\* Variant: a signed URL that stays valid for a day.
SignedUrlExpiresOneDay == 24 * 3600
SignedUrlExpires == 3600
MetricsPeriod == 3600
MetricsWindowMs == 24 * 60 * 60 * 1000
DefaultRegion == <<"u", "s", "-", "e", "a", "s", "t", "-", "1">>

\* ----------------------------------------------------------------- strings
RECURSIVE NumberToString(_)
\* String(n) for a non-negative integer, as template literals format numbers.
NumberToString(n) ==
    IF n < 10 THEN <<Digits[n + 1]>>
    ELSE NumberToString(n \div 10) \o <<Digits[(n % 10) + 1]>>

RECURSIVE PadStart(_, _)
PadStart(s, width) ==
    IF Len(s) >= width THEN s ELSE PadStart(<<"0">> \o s, width)

\* Date.prototype.toISOString for a time value ms >= 0 (UTC, proleptic
\* Gregorian calendar): YYYY-MM-DDTHH:mm:ss.sssZ
toISOString(ms) ==
    LET day == ms \div 86400000
        rem == ms % 86400000
        z == day + 719468
        era == z \div 146097
        doe == z - era * 146097
        yoe == (doe - doe \div 1460 + doe \div 36524 - doe \div 146096) \div 365
        doy == doe - (365 * yoe + yoe \div 4 - yoe \div 100)
        mp == (5 * doy + 2) \div 153
        d == doy - (153 * mp + 2) \div 5 + 1
        m == IF mp < 10 THEN mp + 3 ELSE mp - 9
        y == yoe + era * 400 + (IF m <= 2 THEN 1 ELSE 0)
    IN  PadStart(NumberToString(y), 4) \o <<"-">> \o PadStart(NumberToString(m), 2) \o <<"-">>
        \o PadStart(NumberToString(d), 2) \o <<"T">>
        \o PadStart(NumberToString(rem \div 3600000), 2) \o <<":">>
        \o PadStart(NumberToString((rem \div 60000) % 60), 2) \o <<":">>
        \o PadStart(NumberToString((rem \div 1000) % 60), 2) \o <<".">>
        \o PadStart(NumberToString(rem % 1000), 3) \o <<"Z">>

\* ----------------------------------------------------------- configuration
KeyAccessKeyId == "AWS_ACCESS_KEY_ID"
KeySecret == "AWS_SECRET_ACCESS_KEY"
KeyRegion == "AWS_REGION"
KeyBucket == "AWS_S3_BUCKET"
KeyCdnDomain == "CDN_DOMAIN"
KeyDistribution == "CLOUDFRONT_DISTRIBUTION_ID"

ConfigKeys == {KeyAccessKeyId, KeySecret, KeyRegion, KeyBucket, KeyCdnDomain, KeyDistribution}

\* The environment the service is started with; AWS_REGION is not set.
InitialConfig ==
    [k \in ConfigKeys |->
        CASE k = KeyAccessKeyId -> <<"A", "K">>
          [] k = KeySecret -> <<"S", "K">>
          [] k = KeyRegion -> Undefined
          [] k = KeyBucket -> <<"b", "1">>
          [] k = KeyCdnDomain -> <<"d", ".", "i", "o">>
          [] k = KeyDistribution -> <<"E", "1">>]

\* The environment after the configuration source has been changed.
ChangedConfig ==
    [InitialConfig EXCEPT ![KeyBucket] = <<"b", "2">>,
                          ![KeyCdnDomain] = <<"e", ".", "i", "o">>,
                          ![KeyDistribution] = <<"E", "2">>]

ConfigSources == {InitialConfig, ChangedConfig}

\* ConfigService.get(key) and ConfigService.get(key, defaultValue)
Get(cfg, key) == cfg[key]
GetOr(cfg, key, dflt) == IF cfg[key] = Undefined THEN dflt ELSE cfg[key]

\* CDNService constructor: the fields it fills from the configuration.
Constructor(cfg) ==
    [awsConfig |-> [accessKeyId |-> Get(cfg, KeyAccessKeyId),
                    secretAccessKey |-> Get(cfg, KeySecret),
                    region |-> GetOr(cfg, KeyRegion, DefaultRegion)],
     s3Params |-> [Bucket |-> Get(cfg, KeyBucket)],
     bucketName |-> Get(cfg, KeyBucket),
     cdnDomain |-> Get(cfg, KeyCdnDomain)]

\* ------------------------------------------------------------------ inputs
Track123 == <<"t", "r", "a", "c", "k", "1", "2", "3">>
TrackIds == {Track123, <<"7">>}

\* StreamingOptions: a property that is not supplied reads as Undefined.
OptionValues == [quality : Qualities \cup {Undefined}, format : Formats \cup {Undefined}]

\* Argument lists of generateStreamingUrl / generateCDNStreamingUrl.
StreamArgs == {<<t>> : t \in TrackIds} \cup {<<t, o>> : t \in TrackIds, o \in OptionValues}

Payloads == {<<>>, <<73, 68, 51>>}
UploadKeys == {<<"k">>, <<"t", "r", "a", "c", "k", "s", "/", "7", "/", "l", "o", "w", ".", "a", "a", "c">>}
AudioFlac == <<"a", "u", "d", "i", "o", "/", "f", "l", "a", "c">>

\* Argument lists of uploadAudioFile.
UploadArgs ==
    {<<f, k>> : f \in Payloads, k \in UploadKeys}
        \cup {<<f, k, AudioFlac>> : f \in Payloads, k \in UploadKeys}

PathPool == {<<"a", "/", "b">>, <<"c">>, <<"/", "x">>}

RECURSIVE SeqsUpTo(_, _)
SeqsUpTo(S, n) ==
    IF n = 0 THEN {<<>>}
    ELSE LET shorter == SeqsUpTo(S, n - 1)
         IN  shorter \cup {Append(q, x) : q \in shorter, x \in S}

\* Argument lists of invalidateCDNCache.
InvalidateArgs == {<<paths>> : paths \in SeqsUpTo(PathPool, MaxPaths)}

\* Argument lists of getStreamingMetrics.
MetricsArgs == {<<t>> : t \in TrackIds}

\* Errors the SDK raises.
Errors == {<<"Error", "AccessDenied">>, <<"Error", "NetworkingError">>}

\* ------------------------------------------------------------ the service
\* `tracks/${trackId}/${quality}.${format}`
StorageKey(trackId, quality, format) ==
    <<"t", "r", "a", "c", "k", "s", "/">> \o trackId \o <<"/">> \o quality \o <<".">> \o format

\* Variant: the separator between domain and key is left out.
CdnUrlNoSeparator(cdnDomain, key) ==
    <<"h", "t", "t", "p", "s", ":", "/", "/">> \o cdnDomain \o key

\* `https://${this.cdnDomain}/${key}`
CdnUrl(cdnDomain, key) ==
    <<"h", "t", "t", "p", "s", ":", "/", "/">> \o cdnDomain \o <<"/">> \o key

\* options: StreamingOptions = {}
OptionsParam(args) ==
    IF Len(args) >= 2 THEN args[2] ELSE [quality |-> Undefined, format |-> Undefined]

\* const { quality = "medium", format = "mp3" } = options
EffectiveQuality(options) ==
    IF options.quality = Undefined THEN Medium ELSE options.quality

\* Variant: the defaults apply only when the options object supplies nothing.
EffectiveFormatAllOrNothing(options) ==
    IF options.quality = Undefined /\ options.format = Undefined THEN Mp3 ELSE options.format

EffectiveFormat(options) ==
    IF options.format = Undefined THEN Mp3 ELSE options.format

\* contentType = "audio/mpeg"
ContentTypeParam(args) == IF Len(args) >= 3 THEN args[3] ELSE AudioMpeg

\* Variant: the upload time is attached as epoch milliseconds.
UploadParamsEpochMillis(s, args, clock) ==
    [Bucket |-> s.bucketName,
     Key |-> args[2],
     Body |-> args[1],
     ContentType |-> ContentTypeParam(args),
     CacheControl |-> UploadCacheControl,
     Metadata |-> [k \in {"uploaded-at"} |-> NumberToString(clock)]]

\* The PutObjectRequest uploadAudioFile builds.
UploadParams(s, args, clock) ==
    [Bucket |-> s.bucketName,
     Key |-> args[2],
     Body |-> args[1],
     ContentType |-> ContentTypeParam(args),
     CacheControl |-> UploadCacheControl,
     Metadata |-> [k \in {"uploaded-at"} |-> toISOString(clock)]]

\* The parameters generateStreamingUrl hands to s3.getSignedUrl("getObject", ...).
SignParams(s, args) ==
    LET options == OptionsParam(args)
        format == EffectiveFormat(options)
    IN  [Operation |-> "getObject",
         Bucket |-> s.bucketName,
         Key |-> StorageKey(args[1], EffectiveQuality(options), format),
         Expires |-> SignedUrlExpires,
         ResponseContentType |-> <<"a", "u", "d", "i", "o", "/">> \o format,
         ResponseCacheControl |-> SignedCacheControl]

\* Variant: the paths are submitted as given.
PathItemsAsGiven(paths) == paths

\* paths.map((path) => `/${path}`)
PathItems(paths) == [i \in 1..Len(paths) |-> <<"/">> \o paths[i]]

\* `invalidation-${Date.now()}`
CallerReference(clock) ==
    <<"i", "n", "v", "a", "l", "i", "d", "a", "t", "i", "o", "n", "-">> \o NumberToString(clock)

\* The request invalidateCDNCache submits to CloudFront.
InvalidationParams(cfg, args, clock) ==
    [DistributionId |-> Get(cfg, KeyDistribution),
     InvalidationBatch |->
        [CallerReference |-> CallerReference(clock),
         Paths |-> [Quantity |-> Len(args[1]), Items |-> PathItems(args[1])]]]

\* The query getStreamingMetrics sends to CloudWatch.
MetricsParams(cfg, clock) ==
    [MetricName |-> "BytesDownloaded",
     Namespace |-> "AWS/CloudFront",
     StartTime |-> clock - MetricsWindowMs,
     EndTime |-> clock,
     Period |-> MetricsPeriod,
     Statistics |-> <<"Sum", "Average">>,
     Dimensions |-> <<[Name |-> "DistributionId", Value |-> Get(cfg, KeyDistribution)]>>]

\* What the signer returns for a request: an opaque function of the request.
SignedUrl(params) == <<"signed", params>>

\* Answers of the remote services to an accepted request.
UploadResult(params) ==
    [Location |-> <<"s", "3", ":">> \o params.Bucket \o <<"/">> \o params.Key,
     Key |-> params.Key,
     ETag |-> <<"e", "t", "a", "g">>]

InvalidationResult == [Status |-> "InProgress"]

MetricsResult == [Label |-> "BytesDownloaded", Datapoints |-> <<>>]

\* --------------------------------------------------------- state machine
\* calls[i] is the i-th invocation: while it waits at its await it holds what
\* its continuation closes over (key), what the remote service answers from
\* (pending) and, once answered, the response; afterwards only its operation
\* and the number of remote requests it issued (signing a URL is computed
\* locally and sends none).  last is the latest event of the service seen
\* from outside: a request sent to a remote service (ev = "sent") or an
\* invocation settling (ev = "settled"), with the logger call of that step
\* reduced to its level and error object.  invalidations is the list of
\* caller references the CDN control plane has received.

NoPending == [Bucket |-> NoKey, Key |-> NoKey]
NoResponse == [ok |-> FALSE, error |-> NoError]

Awaiting(op, key, pending) ==
    [pc |-> "awaiting", op |-> op, nreq |-> 1, key |-> key, pending |-> pending,
     response |-> NoResponse]

Settled(op, nreq) ==
    [pc |-> "done", op |-> op, nreq |-> nreq, key |-> NoKey, pending |-> NoPending,
     response |-> NoResponse]

\* The details of an event are filed under the operation's name, so that the
\* events of different operations are records of different shapes.
Sent(op, args, clock, request) ==
    [ev |-> "sent", op |-> op,
     d |-> [o \in {op} |-> [args |-> args, clock |-> clock, request |-> request]]]

Done(op, args, request, response, outcome, logged) ==
    [ev |-> "settled", op |-> op,
     d |-> [o \in {op} |-> [args |-> args, request |-> request, response |-> response,
                            outcome |-> outcome, logged |-> logged]]]

\* The details of the latest event.
Last == last.d[last.op]

Resolved(value) == [kind |-> "resolved", value |-> value]
Rejected(error) == [kind |-> "rejected", error |-> error]

LogError(error) == [level |-> "error", error |-> error]
LogInfo == [level |-> "log", error |-> NoError]
NoLog == [level |-> "none", error |-> NoError]

TypeOK ==
    /\ DOMAIN config = ConfigKeys
    /\ now \in Nat
    /\ ticks \in 0..MaxTicks
    /\ Len(calls) <= MaxCalls
    /\ \A i \in 1..Len(calls) : calls[i].pc \in {"awaiting", "answered", "done"}
    /\ Len(invalidations) <= Len(calls)

Init ==
    /\ config = InitialConfig
    /\ svc = Constructor(InitialConfig)
    /\ now = 0
    /\ ticks = 0
    /\ calls = <<>>
    /\ last = [ev |-> "none", op |-> "none", d |-> [o \in {"none"} |-> NoLog]]
    /\ invalidations = <<>>

\* The clock advances.
ClockSteps == {90061001}

Tick ==
    /\ ticks < MaxTicks
    /\ \E d \in ClockSteps : now' = now + d
    /\ ticks' = ticks + 1
    /\ UNCHANGED <<config, svc, calls, last, invalidations>>

\* The configuration source changes its values.
ConfigSet ==
    /\ \E cfg \in ConfigSources \ {config} : config' = cfg
    /\ UNCHANGED <<svc, now, ticks, calls, last, invalidations>>

\* uploadAudioFile up to its await: builds the put request and sends it.
UploadAudioFile ==
    /\ Len(calls) < MaxCalls
    /\ \E args \in UploadArgs :
          LET uploadParams == UploadParams(svc, args, now)
          IN  /\ calls' = Append(calls,
                            Awaiting("uploadAudioFile", args[2],
                                     [Bucket |-> uploadParams.Bucket, Key |-> uploadParams.Key]))
              /\ last' = Sent("uploadAudioFile", args, now, uploadParams)
    /\ UNCHANGED <<config, svc, now, ticks, invalidations>>

\* The value uploadAudioFile returns.
UploadReturn(s, key, result) ==
    [url |-> result.Location,
     cdnUrl |-> CdnUrl(s.cdnDomain, key),
     key |-> result.Key,
     etag |-> result.ETag]

\* What uploadAudioFile does with a failed upload (catch block).
UploadCatch(error) == Rejected(error)

\* Variant: a failed upload is sent once more before giving up.
UploadAudioFileResumeRetrying ==
    \E i \in 1..Len(calls) :
       LET c == calls[i] IN
       /\ c.pc = "answered"
       /\ c.op = "uploadAudioFile"
       /\ IF c.response.ok
          THEN /\ last' = Done(c.op, <<c.key>>, NoRequest, c.response,
                               Resolved(UploadReturn(svc, c.key, c.response.value)), NoLog)
               /\ calls' = [calls EXCEPT ![i] = Settled(c.op, c.nreq)]
          ELSE IF c.nreq < 2
          THEN /\ last' = last
               /\ calls' = [calls EXCEPT ![i] =
                              [c EXCEPT !.pc = "awaiting", !.nreq = c.nreq + 1,
                                        !.response = NoResponse]]
          ELSE /\ last' = Done(c.op, <<c.key>>, NoRequest, c.response,
                               UploadCatch(c.response.error), LogError(c.response.error))
               /\ calls' = [calls EXCEPT ![i] = Settled(c.op, c.nreq)]
       /\ UNCHANGED <<config, svc, now, ticks, invalidations>>

\* uploadAudioFile after its await: the result, or the catch block.
UploadAudioFileResume ==
    \E i \in 1..Len(calls) :
       LET c == calls[i] IN
       /\ c.pc = "answered"
       /\ c.op = "uploadAudioFile"
       /\ last' =
            IF c.response.ok
            THEN Done(c.op, <<c.key>>, NoRequest, c.response,
                      Resolved(UploadReturn(svc, c.key, c.response.value)), NoLog)
            ELSE Done(c.op, <<c.key>>, NoRequest, c.response,
                      UploadCatch(c.response.error), LogError(c.response.error))
       /\ calls' = [calls EXCEPT ![i] = Settled(c.op, c.nreq)]
       /\ UNCHANGED <<config, svc, now, ticks, invalidations>>

\* What generateStreamingUrl does when the signer throws (catch block).
SignCatch(error) == Rejected(error)

\* generateStreamingUrl: no await, the signer answers or throws at once.
GenerateStreamingUrl ==
    /\ Len(calls) < MaxCalls
    /\ \E args \in StreamArgs, thrown \in Errors \cup {NoError} :
          LET params == SignParams(svc, args)
          IN  /\ last' =
                   IF thrown = NoError
                   THEN Done("generateStreamingUrl", args, params,
                             [ok |-> TRUE, value |-> SignedUrl(params)],
                             Resolved(SignedUrl(params)), NoLog)
                   ELSE Done("generateStreamingUrl", args, params,
                             [ok |-> FALSE, error |-> thrown],
                             SignCatch(thrown), LogError(thrown))
              /\ calls' = Append(calls, Settled("generateStreamingUrl", 0))
    /\ UNCHANGED <<config, svc, now, ticks, invalidations>>

\* The URL generateCDNStreamingUrl returns.
CdnStreamingUrl(s, args) ==
    LET options == OptionsParam(args)
        key == StorageKey(args[1], EffectiveQuality(options), EffectiveFormat(options))
    IN  CdnUrl(s.cdnDomain, key)

\* generateCDNStreamingUrl: no await, no SDK call.
GenerateCDNStreamingUrl ==
    /\ Len(calls) < MaxCalls
    /\ \E args \in StreamArgs :
          /\ last' = Done("generateCDNStreamingUrl", args, NoRequest, NoResponse,
                          Resolved(CdnStreamingUrl(svc, args)), NoLog)
          /\ calls' = Append(calls, Settled("generateCDNStreamingUrl", 0))
    /\ UNCHANGED <<config, svc, now, ticks, invalidations>>

\* invalidateCDNCache up to its await: builds the batch and submits it.
InvalidateCDNCache ==
    /\ Len(calls) < MaxCalls
    /\ \E args \in InvalidateArgs :
          LET params == InvalidationParams(config, args, now)
          IN  /\ calls' = Append(calls, Awaiting("invalidateCDNCache", NoKey, NoPending))
              /\ last' = Sent("invalidateCDNCache", args, now, params)
              /\ invalidations' = Append(invalidations, params.InvalidationBatch.CallerReference)
    /\ UNCHANGED <<config, svc, now, ticks>>

\* What invalidateCDNCache does with a failed submission (catch block).
InvalidateCatch(error) == Rejected(error)

\* invalidateCDNCache after its await: the log line, or the catch block.
InvalidateCDNCacheResume ==
    \E i \in 1..Len(calls) :
       LET c == calls[i] IN
       /\ c.pc = "answered"
       /\ c.op = "invalidateCDNCache"
       /\ last' =
            IF c.response.ok
            THEN Done(c.op, <<>>, NoRequest, c.response, Resolved(Undefined), LogInfo)
            ELSE Done(c.op, <<>>, NoRequest, c.response,
                      InvalidateCatch(c.response.error), LogError(c.response.error))
       /\ calls' = [calls EXCEPT ![i] = Settled(c.op, c.nreq)]
       /\ UNCHANGED <<config, svc, now, ticks, invalidations>>

\* getStreamingMetrics up to its await: builds the query and sends it.
GetStreamingMetrics ==
    /\ Len(calls) < MaxCalls
    /\ \E args \in MetricsArgs :
          /\ calls' = Append(calls, Awaiting("getStreamingMetrics", NoKey, NoPending))
          /\ last' = Sent("getStreamingMetrics", args, now, MetricsParams(config, now))
    /\ UNCHANGED <<config, svc, now, ticks, invalidations>>

\* Variant: the catch block rethrows like those of the other operations.
MetricsCatchRethrows(error) == Rejected(error)

\* What getStreamingMetrics does with a failed query (catch block).
MetricsCatch(error) == Resolved(Null)

\* getStreamingMetrics after its await: the metrics, or null from the catch block.
GetStreamingMetricsResume ==
    \E i \in 1..Len(calls) :
       LET c == calls[i] IN
       /\ c.pc = "answered"
       /\ c.op = "getStreamingMetrics"
       /\ last' =
            IF c.response.ok
            THEN Done(c.op, <<>>, NoRequest, c.response, Resolved(c.response.value), NoLog)
            ELSE Done(c.op, <<>>, NoRequest, c.response,
                      MetricsCatch(c.response.error), LogError(c.response.error))
       /\ calls' = [calls EXCEPT ![i] = Settled(c.op, c.nreq)]
       /\ UNCHANGED <<config, svc, now, ticks, invalidations>>

\* The remote service accepts a pending request and answers it.
RemoteSucceeds ==
    \E i \in 1..Len(calls) :
       LET c == calls[i] IN
       /\ c.pc = "awaiting"
       /\ calls' = [calls EXCEPT ![i] =
                      [c EXCEPT !.pc = "answered",
                                !.response =
                                   [ok |-> TRUE,
                                    value |-> CASE c.op = "uploadAudioFile" -> UploadResult(c.pending)
                                                [] c.op = "invalidateCDNCache" -> InvalidationResult
                                                [] c.op = "getStreamingMetrics" -> MetricsResult]]]
       /\ UNCHANGED <<config, svc, now, ticks, last, invalidations>>

\* The remote call of a pending request fails.
RemoteFails ==
    \E i \in 1..Len(calls), e \in Errors :
       LET c == calls[i] IN
       /\ c.pc = "awaiting"
       /\ calls' = [calls EXCEPT ![i] =
                      [c EXCEPT !.pc = "answered", !.response = [ok |-> FALSE, error |-> e]]]
       /\ UNCHANGED <<config, svc, now, ticks, last, invalidations>>

Next ==
    \/ Tick
    \/ ConfigSet
    \/ UploadAudioFile
    \/ UploadAudioFileResume
    \/ GenerateStreamingUrl
    \/ GenerateCDNStreamingUrl
    \/ InvalidateCDNCache
    \/ InvalidateCDNCacheResume
    \/ GetStreamingMetrics
    \/ GetStreamingMetricsResume
    \/ RemoteSucceeds
    \/ RemoteFails

Spec == Init /\ [][Next]_vars

\* The event loop runs the continuation of every promise that has settled.
FairSpec ==
    /\ Spec
    /\ WF_calls(UploadAudioFileResume)
    /\ WF_calls(InvalidateCDNCacheResume)
    /\ WF_calls(GetStreamingMetricsResume)

\* ============================================================== properties
\* Literals of the interface, written out independently of the operators above.
LitHttps == <<"h", "t", "t", "p", "s", ":", "/", "/">>
LitTracks == <<"t", "r", "a", "c", "k", "s", "/">>
LitAudio == <<"a", "u", "d", "i", "o", "/">>

SettledBy(op) == last.ev = "settled" /\ last.op = op
SentBy(op) == last.ev = "sent" /\ last.op = op

\* The quality and format an argument list supplies (Undefined when it does not).
SuppliedQuality(args) == IF Len(args) >= 2 THEN args[2].quality ELSE Undefined
SuppliedFormat(args) == IF Len(args) >= 2 THEN args[2].format ELSE Undefined

StartsWithSlash(s) == Len(s) >= 1 /\ s[1] = "/"

\* Date.parse of a YYYY-MM-DDTHH:mm:ss.sssZ string.
IsISO8601(s) ==
    /\ Len(s) = 24
    /\ s[5] = "-" /\ s[8] = "-" /\ s[11] = "T" /\ s[14] = ":" /\ s[17] = ":"
    /\ s[20] = "." /\ s[24] = "Z"
    /\ \A i \in (1..23) \ {5, 8, 11, 14, 17, 20} : \E d \in 1..10 : Digits[d] = s[i]

DigitValue(c) == (CHOOSE d \in 1..10 : Digits[d] = c) - 1

RECURSIVE NumberAt(_, _, _)
NumberAt(s, from, to) ==
    IF from > to THEN 0 ELSE 10 * NumberAt(s, from, to - 1) + DigitValue(s[to])

ParseISO(s) ==
    LET year == NumberAt(s, 1, 4)
        m == NumberAt(s, 6, 7)
        d == NumberAt(s, 9, 10)
        y == IF m <= 2 THEN year - 1 ELSE year
        era == y \div 400
        yoe == y - era * 400
        doy == (153 * (IF m > 2 THEN m - 3 ELSE m + 9) + 2) \div 5 + d - 1
        doe == yoe * 365 + yoe \div 4 - yoe \div 100 + doy
        days == era * 146097 + doe - 719468
    IN  days * 86400000 + NumberAt(s, 12, 13) * 3600000 + NumberAt(s, 15, 16) * 60000
        + NumberAt(s, 18, 19) * 1000 + NumberAt(s, 21, 23)

\* C1: with quality and format both supplied, generateCDNStreamingUrl returns
\* "https://" + cdnDomain + "/" + K and generateStreamingUrl signs the key K,
\* K = "tracks/" + trackId + "/" + quality + "." + format; a successful
\* uploadAudioFile returns cdnUrl = "https://" + cdnDomain + "/" + key for the
\* key that was stored, which is the key the caller supplied.
C1_CdnUrlIsDomainPlusStorageKey ==
    /\ \A op \in {"generateStreamingUrl", "generateCDNStreamingUrl"} :
          (/\ SettledBy(op)
           /\ SuppliedQuality(Last.args) \in Qualities
           /\ SuppliedFormat(Last.args) \in Formats)
          => LET K == LitTracks \o Last.args[1] \o <<"/">> \o Last.args[2].quality
                       \o <<".">> \o Last.args[2].format
             IN  IF op = "generateStreamingUrl"
                 THEN Last.request.Key = K
                 ELSE Last.outcome = [kind |-> "resolved",
                                      value |-> LitHttps \o svc.cdnDomain \o <<"/">> \o K]
    /\ (SettledBy("uploadAudioFile") /\ Last.response.ok)
          => /\ Last.outcome.kind = "resolved"
             /\ Last.outcome.value.key = Last.args[1]
             /\ Last.outcome.value.cdnUrl
                  = LitHttps \o svc.cdnDomain \o <<"/">> \o Last.outcome.value.key

C1_Witness ==
    /\ SettledBy("generateCDNStreamingUrl")
    /\ Last.args = <<Track123, [quality |-> Lossless, format |-> Aac]>>
    /\ config[KeyCdnDomain] # svc.cdnDomain

\* C2: in generateStreamingUrl and generateCDNStreamingUrl a quality that is
\* not supplied becomes "medium" and a format that is not supplied becomes
\* "mp3", each independently of the other, and a supplied one is used as is.
C2_DefaultsAreIndependent ==
    \A op \in {"generateStreamingUrl", "generateCDNStreamingUrl"} :
       SettledBy(op)
       => LET q == IF SuppliedQuality(Last.args) = Undefined
                   THEN <<"m", "e", "d", "i", "u", "m">> ELSE SuppliedQuality(Last.args)
              f == IF SuppliedFormat(Last.args) = Undefined
                   THEN <<"m", "p", "3">> ELSE SuppliedFormat(Last.args)
              K == LitTracks \o Last.args[1] \o <<"/">> \o q \o <<".">> \o f
          IN  IF op = "generateStreamingUrl"
              THEN Last.request.Key = K /\ Last.request.ResponseContentType = LitAudio \o f
              ELSE Last.outcome.value = LitHttps \o svc.cdnDomain \o <<"/">> \o K

C2_Witness ==
    /\ SettledBy("generateStreamingUrl")
    /\ Len(Last.args) = 2
    /\ Last.args[2].quality = Lossless
    /\ Last.args[2].format = Undefined
    /\ Last.request.Key
         = LitTracks \o Last.args[1] \o <<"/", "l", "o", "s", "s", "l", "e", "s", "s", ".", "m", "p", "3">>

\* C3: when the remote call fails, uploadAudioFile, generateStreamingUrl and
\* invalidateCDNCache reject with the very error that call raised, and
\* getStreamingMetrics resolves to null.
C3_ErrorsPropagateExceptMetrics ==
    /\ \A op \in {"uploadAudioFile", "generateStreamingUrl", "invalidateCDNCache"} :
          (SettledBy(op) /\ ~Last.response.ok)
          => Last.outcome = [kind |-> "rejected", error |-> Last.response.error]
    /\ (SettledBy("getStreamingMetrics") /\ ~Last.response.ok)
          => Last.outcome = [kind |-> "resolved", value |-> Null]

C3_Witness ==
    /\ SettledBy("getStreamingMetrics")
    /\ ~Last.response.ok
    /\ \E i \in 1..Len(calls) :
          calls[i].op = "invalidateCDNCache" /\ calls[i].pc = "done"

C5_NoDoublePrefix ==
    SentBy("invalidateCDNCache")
    => \A i \in 1..Len(Last.request.InvalidationBatch.Paths.Items) :
          LET item == Last.request.InvalidationBatch.Paths.Items[i]
          IN  ~(Len(item) >= 2 /\ item[1] = "/" /\ item[2] = "/")

\* C6: no two submitted invalidation requests carry the same CallerReference.
C6_CallerReferenceUnique ==
    \A i, j \in 1..Len(invalidations) : i # j => invalidations[i] # invalidations[j]

\* C7: every put request of uploadAudioFile carries cache-control
\* "max-age=31536000", an ISO-8601 "uploaded-at" that parses to the clock
\* value read during the call, the supplied key and payload, and the supplied
\* content type or "audio/mpeg" when none is supplied.
C7_UploadRequestShape ==
    SentBy("uploadAudioFile")
    => LET r == Last.request IN
       /\ r.CacheControl
            = <<"m", "a", "x", "-", "a", "g", "e", "=", "3", "1", "5", "3", "6", "0", "0", "0">>
       /\ DOMAIN r.Metadata = {"uploaded-at"}
       /\ IsISO8601(r.Metadata["uploaded-at"])
       /\ ParseISO(r.Metadata["uploaded-at"]) = Last.clock
       /\ r.Body = Last.args[1]
       /\ r.Key = Last.args[2]
       /\ r.ContentType = IF Len(Last.args) >= 3 THEN Last.args[3]
                          ELSE <<"a", "u", "d", "i", "o", "/", "m", "p", "e", "g">>

C7_Witness ==
    /\ SentBy("uploadAudioFile")
    /\ Len(Last.args) = 2
    /\ Last.clock > 86400000
    /\ Last.request.ContentType = AudioMpeg

\* C8: every signing request of generateStreamingUrl asks for a getObject URL
\* on the configured bucket with expiry 3600 s, response content-type
\* "audio/" + the effective format and response cache-control "max-age=3600";
\* ("track123", {high, flac}) signs tracks/track123/high.flac with audio/flac.
C8_SignRequestShape ==
    SettledBy("generateStreamingUrl")
    => LET r == Last.request
           f == IF SuppliedFormat(Last.args) = Undefined
                THEN <<"m", "p", "3">> ELSE SuppliedFormat(Last.args)
       IN  /\ r.Operation = "getObject"
           /\ r.Bucket = svc.bucketName
           /\ r.Expires = 3600
           /\ r.ResponseContentType = LitAudio \o f
           /\ r.ResponseCacheControl = <<"m", "a", "x", "-", "a", "g", "e", "=", "3", "6", "0", "0">>
           /\ Last.args = <<Track123, [quality |-> High, format |-> Flac]>>
                => /\ r.Key = <<"t", "r", "a", "c", "k", "s", "/", "t", "r", "a", "c", "k",
                                "1", "2", "3", "/", "h", "i", "g", "h", ".", "f", "l", "a", "c">>
                   /\ r.ResponseContentType = <<"a", "u", "d", "i", "o", "/", "f", "l", "a", "c">>

C8_Witness ==
    /\ SettledBy("generateStreamingUrl")
    /\ Last.args = <<Track123, [quality |-> High, format |-> Flac]>>
    /\ Last.outcome.kind = "resolved"

\* C9: every request uses the configuration values in force at construction,
\* whatever the configuration source holds when the call is made.
C9_ConfigurationReadOnce ==
    /\ SentBy("uploadAudioFile") => Last.request.Bucket = InitialConfig[KeyBucket]
    /\ SettledBy("generateStreamingUrl") => Last.request.Bucket = InitialConfig[KeyBucket]
    /\ SentBy("invalidateCDNCache")
          => Last.request.DistributionId = InitialConfig[KeyDistribution]
    /\ SentBy("getStreamingMetrics")
          => Last.request.Dimensions[1].Value = InitialConfig[KeyDistribution]

\* The number of remote requests of every invocation, pending or settled.
C10_OneRequest ==
    /\ \A i \in 1..Len(calls) :
          /\ calls[i].op \in {"uploadAudioFile", "invalidateCDNCache", "getStreamingMetrics"}
                => calls[i].nreq = 1
          /\ calls[i].op = "generateCDNStreamingUrl"
                => calls[i].nreq = 0 /\ calls[i].pc = "done"
    /\ SettledBy("generateCDNStreamingUrl") => Last.outcome.kind = "resolved"

\* C10: uploadAudioFile, invalidateCDNCache and getStreamingMetrics issue
\* exactly one remote request per invocation, whether it succeeds or fails,
\* generateCDNStreamingUrl issues none and resolves, and an invocation whose
\* request has been answered settles.
C10_NoRetryAndSettles ==
    /\ []C10_OneRequest
    /\ \A i \in 1..MaxCalls :
          (i <= Len(calls) /\ calls[i].pc = "answered")
             ~> (i <= Len(calls) /\ calls[i].pc = "done")

C10_Witness ==
    /\ SettledBy("uploadAudioFile")
    /\ ~Last.response.ok
    /\ \E i \in 1..Len(calls) :
          calls[i].op = "uploadAudioFile" /\ calls[i].pc = "done" /\ calls[i].nreq = 1

====
